---------------------------- MODULE Spec2Model ----------------------------
(***************************************************************************)
(* GASpy, gaspy/tasks/atoms_generators.py: the tasks that generate atoms   *)
(* documents (gas, bulk, slabs, adsorption sites), the Output Store they   *)
(* persist to, and the Dependency Resolver that drives them.               *)
(*                                                                         *)
(* The task classes, their parameters, requires(), run() and output() are  *)
(* modelled from the source file.  save_task_output and                    *)
(* make_task_output_object (gaspy/tasks/core.py), FindBulk                 *)
(* (gaspy/tasks/calculation_finders.py) and the resolver itself are not in *)
(* the source tree; they are modelled from the specification, sections    *)
(* 3, 4.2, 4.3 and 5.                                                      *)
(***************************************************************************)
EXTENDS Integers, Sequences, FiniteSets, TLC

(***************************************************************************)
(* Bounds of the model                                                     *)
(***************************************************************************)
MaxRoots == 2        \* root Tasks handed to one resolution
MaxRuns == 2         \* resolve-and-run sequences in a row
MaxDeletes == 1      \* external deletions of a committed record

(***************************************************************************)
(* Parameter values                                                        *)
(***************************************************************************)
\* strings given as gas_name or as mpid
Names == {"CO", "mp-2"}
\* the names ase.collections.g2 knows; any other gas_name is a KeyError
G2 == {"CO"}
\* a sequence value as the caller writes it: a list or a tuple
AsTuple(elems) == [kind |-> "tuple", elems |-> elems]
AsList(elems) == [kind |-> "list", elems |-> elems]
MillerElems == {<<1, 1, 1>>, <<1, 0, 0>>}
MinXYs == {4, 5}
\* SLAB_SETTINGS['slab_generator_settings'] and SLAB_SETTINGS['get_slab_settings'];
\* a mapping is the sequence of its items in the order they were inserted
DefaultSlabGeneratorSettings == <<<<"min_slab_size", 7>>, <<"min_vacuum_size", 20>>>>
DefaultGetSlabSettings == <<<<"symmetrize", 0>>, <<"tol", 3>>>>

(***************************************************************************)
(* Canonicalisation of parameter values (specification, section 3: tuples  *)
(* and sequences normalised, nested mappings frozen and sorted)            *)
(***************************************************************************)
\* the order of mapping keys
KeyRank(k) ==
    CASE k = "min_slab_size" -> 1
      [] k = "min_vacuum_size" -> 2
      [] k = "symmetrize" -> 3
      [] k = "tol" -> 4

RECURSIVE InsertSorted(_, _)
InsertSorted(pair, sorted) ==
    IF sorted = << >> THEN <<pair>>
    ELSE IF KeyRank(pair[1]) <= KeyRank(Head(sorted)[1])
         THEN <<pair>> \o sorted
         ELSE <<Head(sorted)>> \o InsertSorted(pair, Tail(sorted))

RECURSIVE SortByKey(_)
SortByKey(pairs) ==
    IF pairs = << >> THEN << >>
    ELSE InsertSorted(Head(pairs), SortByKey(Tail(pairs)))

\* a DictParameter value: the mapping frozen with its keys sorted
canonicalize_dict(raw) == SortByKey(raw)

\* a TupleParameter value: a list or a tuple of the same elements is one tuple
canonicalize_tuple(raw) == AsTuple(raw.elems)

\* a plain Parameter keeps the value it is given
Parameter(raw) == raw

TupleParameter(raw) == canonicalize_tuple(raw)

DictParameter(raw) == canonicalize_dict(raw)

FloatParameter(raw) == raw

(***************************************************************************)
(* The task classes and their parameters.  A Task is its type name and its *)
(* canonical parameters; a parameter the class does not declare is blank.  *)
(***************************************************************************)
NoMiller == [kind |-> "none", elems |-> << >>]
NoSettings == << >>

GenerateGas(gas_name) ==
    [type |-> "GenerateGas", name |-> Parameter(gas_name),
     miller_indices |-> NoMiller, slab_generator_settings |-> NoSettings,
     get_slab_settings |-> NoSettings, min_xy |-> 0]

GenerateBulk(mpid) ==
    [type |-> "GenerateBulk", name |-> Parameter(mpid),
     miller_indices |-> NoMiller, slab_generator_settings |-> NoSettings,
     get_slab_settings |-> NoSettings, min_xy |-> 0]

FindBulk(mpid) ==
    [type |-> "FindBulk", name |-> Parameter(mpid),
     miller_indices |-> NoMiller, slab_generator_settings |-> NoSettings,
     get_slab_settings |-> NoSettings, min_xy |-> 0]

\* GenerateSlabs whose settings are declared as plain Parameters
GenerateSlabsPlainSettings(mpid, miller_indices, slab_generator_settings, get_slab_settings) ==
    [type |-> "GenerateSlabs", name |-> Parameter(mpid),
     miller_indices |-> TupleParameter(miller_indices),
     slab_generator_settings |-> Parameter(slab_generator_settings),
     get_slab_settings |-> Parameter(get_slab_settings), min_xy |-> 0]

GenerateSlabs(mpid, miller_indices, slab_generator_settings, get_slab_settings) ==
    [type |-> "GenerateSlabs", name |-> Parameter(mpid),
     miller_indices |-> TupleParameter(miller_indices),
     slab_generator_settings |-> DictParameter(slab_generator_settings),
     get_slab_settings |-> DictParameter(get_slab_settings), min_xy |-> 0]

GenerateAdsorptionSites(mpid, miller_indices, slab_generator_settings, get_slab_settings, min_xy) ==
    [type |-> "GenerateAdsorptionSites", name |-> Parameter(mpid),
     miller_indices |-> TupleParameter(miller_indices),
     slab_generator_settings |-> DictParameter(slab_generator_settings),
     get_slab_settings |-> DictParameter(get_slab_settings),
     min_xy |-> FloatParameter(min_xy)]

(***************************************************************************)
(* Identity and output location                                            *)
(***************************************************************************)
\* the task_id: the task family and every parameter value
task_id(task) ==
    [family |-> task.type, name |-> task.name,
     miller_indices |-> task.miller_indices,
     slab_generator_settings |-> task.slab_generator_settings,
     get_slab_settings |-> task.get_slab_settings, min_xy |-> task.min_xy]

\* GASDB_PATH + '/pickles/%s/%s.pkl' % (type(self).__name__, self.task_id)
make_task_output_location(task) ==
    [dir |-> task.type, file |-> task_id(task)]

make_task_output_object(task) == make_task_output_location(task)

\* a file named after the parameter values alone, in one directory
OutputNamedByParameters(task) ==
    [dir |-> "pickles", file |-> [task_id(task) EXCEPT !.family = "Task"]]

\* output(self): return make_task_output_object(self)
output(task) == make_task_output_object(task)

(***************************************************************************)
(* requires()                                                              *)
(***************************************************************************)
\* FindBulk is not among the classes of this file: what it declares as its
\* dependencies is state, empty when it is a leaf of the graph
VARIABLE declared
FindBulk_requires(task) == declared

\* no upstream task declared
RequiresNothing(task) == {}

\* the upstream slabs keyed by min_xy as well
RequiresSlabsPerMinXY(task) ==
    IF task.type = "GenerateAdsorptionSites"
    THEN {GenerateSlabs(task.name, task.miller_indices,
                        task.slab_generator_settings,
                        <<<<"symmetrize", task.min_xy>>, <<"tol", 3>>>>)}
    ELSE IF task.type = "GenerateSlabs" THEN {FindBulk(task.name)}
    ELSE {}

requires(task) ==
    CASE task.type = "GenerateAdsorptionSites" ->
           {GenerateSlabs(task.name, task.miller_indices,
                          task.slab_generator_settings, task.get_slab_settings)}
      [] task.type = "GenerateSlabs" -> {FindBulk(task.name)}
      [] task.type = "FindBulk" -> FindBulk_requires(task)
      [] OTHER -> {}

(***************************************************************************)
(* Atoms, documents and the external collaborators                         *)
(***************************************************************************)
\* an ase.Atoms object, as the facts the tasks set on it
Atoms(source, struct) ==
    [source |-> source, struct |-> struct, offset |-> 0, cell |-> <<0, 0, 0>>,
     pbc |-> FALSE, upwards |-> FALSE, flipped |-> FALSE, constrained |-> FALSE,
     repeat |-> <<1, 1>>, adsorbate |-> << >>]

\* a slab structure that pymatgen enumerates: its shift, whether it is
\* invertible, and the adsorption sites found on it
Struct(id, shift, invertible, nsites) ==
    [id |-> id, shift |-> shift, invertible |-> invertible, nsites |-> nsites]

InvertibleStruct == Struct(1, 0, TRUE, 2)
SymmetricStruct == Struct(2, 1, FALSE, 1)
BareStruct == Struct(3, 2, FALSE, 0)

\* an invertible structure with the shift of a symmetric one, without sites
FlippableStruct == Struct(4, 1, TRUE, 0)

\* what make_slabs_from_bulk_atoms may return
SlabStructLists ==
    {<< >>, <<BareStruct>>, <<InvertibleStruct, SymmetricStruct>>}

make_doc_from_atoms(atoms) == [atoms |-> atoms]
make_atoms_from_doc(doc) == doc.atoms
AseAtomsAdaptor_get_atoms(struct, source) == Atoms(source, struct.id)
orient_atoms_upwards(atoms) == [atoms EXCEPT !.upwards = TRUE]
constrain_slab(atoms) == [atoms EXCEPT !.constrained = TRUE]
is_structure_invertible(struct) == struct.invertible
flip_atoms(atoms) == [atoms EXCEPT !.flipped = ~atoms.flipped]
\* the unit slab is two Angstroms wide
tile_atoms(atoms, min_x, min_y) ==
    LET slab_repeat == <<(min_x + 1) \div 2, (min_y + 1) \div 2>>
    IN  <<[atoms EXCEPT !.repeat = slab_repeat], slab_repeat>>
StructSites(id) ==
    CASE id = 1 -> <<<<1, 0, 9>>, <<0, 1, 9>>>>
      [] id = 2 -> <<<<1, 1, 9>>>>
      [] OTHER -> << >>
find_adsorption_sites(atoms) == StructSites(atoms.struct)

\* what a task saves: one document, or a list of documents
OneDoc(doc) == [kind |-> "doc", docs |-> <<doc>>]
DocList(docs) == [kind |-> "docs", docs |-> docs]
\* nothing computed yet
NoDoc == [kind |-> "none", docs |-> << >>]

(***************************************************************************)
(* The computations of run()                                               *)
(***************************************************************************)
\* GenerateGas.run, up to the document
GenerateGas_doc(task) ==
    LET atoms == [Atoms(task.name, 0) EXCEPT
                    !.offset = 10, !.cell = <<20, 20, 20>>, !.pbc = TRUE]
    IN  make_doc_from_atoms(atoms)

\* GenerateBulk.run, up to the document
GenerateBulk_doc(task) == make_doc_from_atoms(Atoms(task.name, 0))

\* the relaxed bulk that FindBulk finds
FindBulk_doc(task) ==
    make_doc_from_atoms([Atoms(task.name, 0) EXCEPT !.constrained = TRUE])

\* a generation that flips every structure, invertible or not
RECURSIVE MakeSlabDocsAlwaysFlipped(_, _)
MakeSlabDocsAlwaysFlipped(slab_structures, source) ==
    IF slab_structures = << >> THEN << >>
    ELSE LET struct == Head(slab_structures)
             atoms == orient_atoms_upwards(AseAtomsAdaptor_get_atoms(struct, source))
             doc == make_doc_from_atoms(constrain_slab(atoms))
                      @@ [shift |-> struct.shift, top |-> TRUE]
             doc_flipped == make_doc_from_atoms(constrain_slab(flip_atoms(atoms)))
                              @@ [shift |-> struct.shift, top |-> FALSE]
         IN  <<doc, doc_flipped>>
               \o MakeSlabDocsAlwaysFlipped(Tail(slab_structures), source)

\* a generation that appends the flipped document before the unflipped one
RECURSIVE MakeSlabDocsFlippedFirst(_, _)
MakeSlabDocsFlippedFirst(slab_structures, source) ==
    IF slab_structures = << >> THEN << >>
    ELSE LET struct == Head(slab_structures)
             atoms == orient_atoms_upwards(AseAtomsAdaptor_get_atoms(struct, source))
             doc == make_doc_from_atoms(constrain_slab(atoms))
                      @@ [shift |-> struct.shift, top |-> TRUE]
             doc_flipped == make_doc_from_atoms(constrain_slab(flip_atoms(atoms)))
                              @@ [shift |-> struct.shift, top |-> FALSE]
             docs == IF is_structure_invertible(struct) = TRUE
                     THEN <<doc_flipped, doc>>
                     ELSE <<doc>>
         IN  docs \o MakeSlabDocsFlippedFirst(Tail(slab_structures), source)

RECURSIVE _make_slab_docs_from_structs(_, _)
_make_slab_docs_from_structs(slab_structures, source) ==
    IF slab_structures = << >> THEN << >>
    ELSE LET struct == Head(slab_structures)
             atoms == orient_atoms_upwards(AseAtomsAdaptor_get_atoms(struct, source))
             doc == make_doc_from_atoms(constrain_slab(atoms))
                      @@ [shift |-> struct.shift, top |-> TRUE]
             doc_flipped == make_doc_from_atoms(constrain_slab(flip_atoms(atoms)))
                              @@ [shift |-> struct.shift, top |-> FALSE]
             docs == IF is_structure_invertible(struct) = TRUE
                     THEN <<doc, doc_flipped>>
                     ELSE <<doc>>
         IN  docs \o _make_slab_docs_from_structs(Tail(slab_structures), source)

\* GenerateSlabs.run, from the bulk document to the slab documents
GenerateSlabs_docs(task, bulk_doc, slab_structs) ==
    LET bulk_atoms == make_atoms_from_doc(bulk_doc)
    IN  _make_slab_docs_from_structs(slab_structs, bulk_atoms.source)

\* the documents of one slab with the adsorbate left untagged
RECURSIVE SiteDocsUntagged(_, _, _)
SiteDocsUntagged(slab_atoms_tiled, slab_repeat, sites) ==
    IF sites = << >> THEN << >>
    ELSE LET site == Head(sites)
             adsorbate == [symbol |-> "U", position |-> site, tag |-> 0]
             adslab_atoms == [slab_atoms_tiled EXCEPT !.adsorbate = <<adsorbate>>]
             doc == make_doc_from_atoms(adslab_atoms)
                      @@ [slab_repeat |-> slab_repeat, adsorption_site |-> site]
         IN  <<doc>> \o SiteDocsUntagged(slab_atoms_tiled, slab_repeat, Tail(sites))

\* the documents of one slab: one per site, a uranium atom tagged 1 on it
RECURSIVE SiteDocs(_, _, _)
SiteDocs(slab_atoms_tiled, slab_repeat, sites) ==
    IF sites = << >> THEN << >>
    ELSE LET site == Head(sites)
             adsorbate == [symbol |-> "U", position |-> site, tag |-> 0]
             adslab_atoms == [slab_atoms_tiled EXCEPT
                                !.adsorbate = <<[adsorbate EXCEPT !.tag = 1]>>]
             doc == make_doc_from_atoms(adslab_atoms)
                      @@ [slab_repeat |-> slab_repeat, adsorption_site |-> site]
         IN  <<doc>> \o SiteDocs(slab_atoms_tiled, slab_repeat, Tail(sites))

\* GenerateAdsorptionSites.run, from the slab documents to the site documents
RECURSIVE GenerateAdsorptionSites_docs(_, _)
GenerateAdsorptionSites_docs(task, slab_docs) ==
    IF slab_docs = << >> THEN << >>
    ELSE LET slab_atoms == make_atoms_from_doc(Head(slab_docs))
             tiled == tile_atoms(slab_atoms, task.min_xy, task.min_xy)
             sites == find_adsorption_sites(tiled[1])
         IN  SiteDocs(tiled[1], tiled[2], sites)
               \o GenerateAdsorptionSites_docs(task, Tail(slab_docs))

(***************************************************************************)
(* The statements of run(), in order.  "save" is save_task_output(self, .) *)
(***************************************************************************)
FindBulk_run(task) == <<"find", "save">>

\* a run() that computes and returns without saving
RunWithoutSave(task) ==
    CASE task.type = "GenerateGas" -> <<"g2">>
      [] task.type = "GenerateBulk" -> <<"fetch">>
      [] task.type = "GenerateSlabs" -> <<"load", "slabs">>
      [] task.type = "GenerateAdsorptionSites" -> <<"load", "sites">>
      [] OTHER -> FindBulk_run(task)

\* GenerateAdsorptionSites.run returning without saving its documents
RunSitesWithoutSave(task) ==
    CASE task.type = "GenerateGas" -> <<"g2", "save">>
      [] task.type = "GenerateBulk" -> <<"fetch", "save">>
      [] task.type = "GenerateSlabs" -> <<"load", "slabs", "save">>
      [] task.type = "GenerateAdsorptionSites" -> <<"load", "sites">>
      [] OTHER -> FindBulk_run(task)

\* a run() that saves before it has computed
RunSavesFirst(task) ==
    CASE task.type = "GenerateGas" -> <<"save", "g2", "save">>
      [] task.type = "GenerateBulk" -> <<"save", "fetch", "save">>
      [] task.type = "GenerateSlabs" -> <<"load", "save", "slabs", "save">>
      [] task.type = "GenerateAdsorptionSites" -> <<"load", "save", "sites", "save">>
      [] OTHER -> FindBulk_run(task)

run(task) ==
    CASE task.type = "GenerateGas" -> <<"g2", "save">>
      [] task.type = "GenerateBulk" -> <<"fetch", "save">>
      [] task.type = "GenerateSlabs" -> <<"load", "slabs", "save">>
      [] task.type = "GenerateAdsorptionSites" -> <<"load", "sites", "save">>
      [] OTHER -> FindBulk_run(task)

(***************************************************************************)
(* State                                                                   *)
(***************************************************************************)
VARIABLES
    roots,      \* the root Tasks to satisfy
    runNo,      \* which resolve-and-run sequence this is
    status,     \* status[r][t]: the Task Nodes of resolver r's graph
    job,        \* job[r][t]: where the execute() of a running task stands
    committed,  \* the Output Records, by location
    staging,    \* the staging artifacts, by writer and location
    started,    \* history: every execute() begun in this run, in order
    executions, \* history: how often each Task's execute() has begun, ever
    report,     \* the failure report of this run
    commits,    \* history: every publish of this run, in order
    deleted,    \* history: the locations deleted externally
    failedRuns, \* history: the runs in which some Task failed
    succeeded,  \* history: the Tasks whose execute() has returned, ever
    instances,  \* Task instances constructed side by side
    call        \* a document function called on its own: input and results

vars == <<roots, runNo, status, job, committed, staging, started, executions,
          report, commits, deleted, failedRuns, succeeded, instances,
          declared, call>>

Resolvers == {1, 2}
EmptyMap == [x \in {} |-> x]

\* every Task the roots are drawn from: the two gases, the bulk, and the
\* chain FindBulk <- GenerateSlabs <- GenerateAdsorptionSites of that bulk
\* with either min_xy
Mpid == "mp-2"
Miller == AsTuple(<<1, 1, 1>>)
Tasks ==
    {GenerateGas(n) : n \in Names}
      \cup {GenerateBulk(Mpid), FindBulk(Mpid),
            GenerateSlabs(Mpid, Miller, DefaultSlabGeneratorSettings,
                          DefaultGetSlabSettings)}
      \cup {GenerateAdsorptionSites(Mpid, Miller, DefaultSlabGeneratorSettings,
                                    DefaultGetSlabSettings, x) : x \in MinXYs}

RootSets == {R \in SUBSET Tasks : Cardinality(R) >= 1 /\ Cardinality(R) <= MaxRoots}

\* exists(identity): a record is present at the task's output location
exists(task) == output(task) \in DOMAIN committed

Executions(t) == IF t \in DOMAIN executions THEN executions[t] ELSE 0
Known(r) == DOMAIN status[r]
StatusOf(r, t) == IF t \in Known(r) THEN status[r][t] ELSE "unknown"
Terminal == {"done", "failed"}
Finished(r) ==
    /\ roots \subseteq Known(r)
    /\ \A t \in Known(r) : status[r][t] \in Terminal

Put(f, k, v) == [x \in DOMAIN f \cup {k} |-> IF x = k THEN v ELSE f[x]]
Drop(f, k) == [x \in DOMAIN f \ {k} |-> f[x]]

\* no document function is being called on its own
NoCall == [step |-> "none", structs |-> << >>, slab_docs |-> << >>,
           min_xy |-> 0, site_docs |-> << >>]

Init ==
    /\ roots \in RootSets
    /\ runNo = 1
    /\ status = [r \in Resolvers |-> EmptyMap]
    /\ job = [r \in Resolvers |-> EmptyMap]
    /\ committed = EmptyMap
    /\ staging = EmptyMap
    /\ started = << >>
    /\ executions = EmptyMap
    /\ report = {}
    /\ commits = << >>
    /\ deleted = {}
    /\ failedRuns = {}
    /\ succeeded = {}
    /\ instances = EmptyMap
    /\ call = NoCall
    /\ declared = {}

(***************************************************************************)
(* The Dependency Resolver (specification, section 4.3)                    *)
(***************************************************************************)
\* a requested Task, or a dependency of any Task of the graph, enters the
\* graph, whether the Task depending on it has to run or not
AddEager(r, t) ==
    /\ t \notin Known(r)
    /\ \/ t \in roots
       \/ \E p \in Known(r) : t \in requires(p)
    /\ status' = [status EXCEPT ![r] =
                    Put(@, t, IF exists(t) THEN "done" ELSE "pending")]
    /\ UNCHANGED <<call, declared, roots, runNo, job, committed, staging, started,
                   executions, report, commits, deleted, instances,
                   failedRuns, succeeded>>

\* a requested Task, or a dependency of a Task that has to run, enters the
\* graph: done if its record exists, pending otherwise
Add(r, t) ==
    /\ t \notin Known(r)
    /\ \/ t \in roots
       \/ \E p \in Known(r) : status[r][p] = "pending" /\ t \in requires(p)
    /\ status' = [status EXCEPT ![r] =
                    Put(@, t, IF exists(t) THEN "done" ELSE "pending")]
    /\ UNCHANGED <<call, declared, roots, runNo, job, committed, staging, started,
                   executions, report, commits, deleted, instances,
                   failedRuns, succeeded>>

\* a dependency failed: the dependent is failed without being run
PropagateFailure(r, t) ==
    /\ StatusOf(r, t) = "pending"
    /\ \E d \in requires(t) : StatusOf(r, d) = "failed"
    /\ status' = [status EXCEPT ![r][t] = "failed"]
    /\ failedRuns' = failedRuns \cup {runNo}
    /\ report' = report \cup {[task |-> t, cause |-> "upstream"]}
    /\ UNCHANGED <<call, declared, roots, runNo, job, committed, staging, started,
                   executions, commits, deleted, instances, succeeded>>

\* the resolver selects a pending Task whose dependencies are all done and
\* whose record is absent, and execute() begins
Start(r, t) ==
    /\ StatusOf(r, t) = "pending"
    /\ \A d \in requires(t) : StatusOf(r, d) = "done"
    /\ ~exists(t)
    /\ status' = [status EXCEPT ![r][t] = "running"]
    /\ job' = [job EXCEPT ![r] =
                 Put(@, t, [ip |-> 1, phase |-> "call", doc |-> NoDoc,
                            input |-> << >>])]
    /\ started' = Append(started, [by |-> r, task |-> t])
    /\ executions' = Put(executions, t, Executions(t) + 1)
    /\ UNCHANGED <<call, declared, roots, runNo, committed, staging, report, commits,
                   deleted, instances, failedRuns, succeeded>>

Running(r, t) == StatusOf(r, t) = "running" /\ t \in DOMAIN job[r]
Statement(r, t) ==
    IF job[r][t].ip <= Len(run(t)) THEN run(t)[job[r][t].ip] ELSE "return"

\* execute() raised: the Task is failed and reported
Fail(r, t) ==
    /\ status' = [status EXCEPT ![r][t] = "failed"]
    /\ job' = [job EXCEPT ![r] = Drop(@, t)]
    /\ failedRuns' = failedRuns \cup {runNo}
    /\ report' = report \cup {[task |-> t, cause |-> "TaskExecutionError"]}

\* run() returned: the Task is done
Return(r, t) ==
    /\ Running(r, t)
    /\ Statement(r, t) = "return"
    /\ status' = [status EXCEPT ![r][t] = "done"]
    /\ succeeded' = succeeded \cup {t}
    /\ job' = [job EXCEPT ![r] = Drop(@, t)]
    /\ UNCHANGED <<call, declared, roots, runNo, committed, staging, started, executions,
                   report, commits, deleted, instances, failedRuns>>

(***************************************************************************)
(* run(): the statements before save_task_output                           *)
(***************************************************************************)
\* self.input(): the output of the one required Task
input(task) == output(CHOOSE d \in requires(task) : TRUE)

Computing(r, t) ==
    /\ Running(r, t)
    /\ Statement(r, t) \in {"g2", "fetch", "find", "load", "slabs", "sites"}

\* the statement cannot succeed: g2 does not know the gas, or the input
\* record cannot be opened and unpickled
MustRaise(r, t) ==
    CASE Statement(r, t) = "g2" -> t.name \notin G2
      [] Statement(r, t) = "load" ->
           IF requires(t) = {} THEN TRUE
           ELSE IF input(t) \notin DOMAIN committed THEN TRUE
           ELSE ~committed[input(t)].complete
      [] OTHER -> FALSE

\* a call to an external collaborator may raise
MayRaise(r, t) ==
    MustRaise(r, t) \/ Statement(r, t) \in {"fetch", "find", "slabs", "sites"}

\* what the statement leaves in the locals of run()
Results(r, t) ==
    LET j == [job[r][t] EXCEPT !.ip = @ + 1]
        stmt == Statement(r, t)
    IN  CASE stmt = "g2" -> {[j EXCEPT !.doc = OneDoc(GenerateGas_doc(t))]}
          [] stmt = "fetch" -> {[j EXCEPT !.doc = OneDoc(GenerateBulk_doc(t))]}
          [] stmt = "find" -> {[j EXCEPT !.doc = OneDoc(FindBulk_doc(t))]}
          [] stmt = "load" -> {[j EXCEPT !.input = committed[input(t)].data.docs]}
          [] stmt = "slabs" ->
               {[j EXCEPT !.doc = DocList(GenerateSlabs_docs(t, j.input[1], structs))] :
                  structs \in SlabStructLists}
          [] stmt = "sites" ->
               {[j EXCEPT !.doc = DocList(GenerateAdsorptionSites_docs(t, j.input))]}

Compute(r, t) ==
    /\ Computing(r, t)
    /\ ~MustRaise(r, t)
    /\ \E j \in Results(r, t) : job' = [job EXCEPT ![r][t] = j]
    /\ UNCHANGED <<call, declared, roots, runNo, status, committed, staging, started,
                   executions, report, commits, deleted, instances,
                   failedRuns, succeeded>>

Raise(r, t) ==
    /\ Computing(r, t)
    /\ MayRaise(r, t)
    /\ Fail(r, t)
    /\ UNCHANGED <<call, declared, roots, runNo, committed, staging, started, executions,
                   commits, deleted, instances, succeeded>>

(***************************************************************************)
(* save_task_output: the Output Store's write (specification, section 4.2) *)
(***************************************************************************)
Saving(r, t, phase) ==
    /\ Running(r, t)
    /\ Statement(r, t) = "save"
    /\ job[r][t].phase = phase

temporary_path(r, t) == [by |-> r, loc |-> output(t)]

\* the file is opened for writing at the committed location itself
OpenInPlace(r, t) ==
    /\ Saving(r, t, "call")
    /\ committed' = Put(committed, output(t), [data |-> job[r][t].doc, complete |-> FALSE])
    /\ staging' = Put(staging, temporary_path(r, t),
                      [data |-> job[r][t].doc, complete |-> FALSE])
    /\ job' = [job EXCEPT ![r][t].phase = "opened"]
    /\ UNCHANGED <<call, declared, roots, runNo, status, started, executions, report,
                   commits, deleted, instances, failedRuns, succeeded>>

\* the staging file is opened: nothing of the payload is complete yet
OpenTemp(r, t) ==
    /\ Saving(r, t, "call")
    /\ staging' = Put(staging, temporary_path(r, t),
                      [data |-> job[r][t].doc, complete |-> FALSE])
    /\ job' = [job EXCEPT ![r][t].phase = "opened"]
    /\ UNCHANGED <<call, declared, roots, runNo, status, committed, started, executions,
                   report, commits, deleted, instances, failedRuns,
                   succeeded>>

\* pickle.dump has written the whole payload to the staging file
Dump(r, t) ==
    /\ Saving(r, t, "opened")
    /\ staging' = [staging EXCEPT ![temporary_path(r, t)].complete = TRUE]
    /\ job' = [job EXCEPT ![r][t].phase = "dumped"]
    /\ UNCHANGED <<call, declared, roots, runNo, status, committed, started, executions,
                   report, commits, deleted, instances, failedRuns,
                   succeeded>>

Publish(r, t) ==
    /\ committed' = Put(committed, output(t), staging[temporary_path(r, t)])
    /\ staging' = Drop(staging, temporary_path(r, t))
    /\ commits' = Append(commits, [by |-> r, loc |-> output(t)])
    /\ job' = [job EXCEPT ![r][t].phase = "call", ![r][t].ip = @ + 1]
    /\ UNCHANGED <<call, declared, roots, runNo, status, started, executions, report,
                   deleted, instances, failedRuns, succeeded>>

\* the staging file replaces whatever is at the committed location
RenameOverwriting(r, t) ==
    /\ Saving(r, t, "dumped")
    /\ Publish(r, t)

\* the staging file is published in one step, if no record is there yet
Rename(r, t) ==
    /\ Saving(r, t, "dumped")
    /\ ~exists(t)
    /\ Publish(r, t)

\* the write is interrupted before its publish step: the staging artifact
\* is orphaned and execute() has raised
Interrupt(r, t) ==
    /\ Saving(r, t, "opened") \/ Saving(r, t, "dumped")
    /\ Fail(r, t)
    /\ UNCHANGED <<call, declared, roots, runNo, committed, staging, started, executions,
                   commits, deleted, instances, succeeded>>

\* another worker committed first: the loser discards its result
Discard(r, t) ==
    /\ Saving(r, t, "dumped")
    /\ exists(t)
    /\ staging' = Drop(staging, temporary_path(r, t))
    /\ job' = [job EXCEPT ![r][t].phase = "call", ![r][t].ip = @ + 1]
    /\ UNCHANGED <<call, declared, roots, runNo, status, committed, started, executions,
                   report, commits, deleted, instances, failedRuns,
                   succeeded>>

\* the record appeared while the Task was pending: done without running
SkipCached(r, t) ==
    /\ StatusOf(r, t) = "pending"
    /\ exists(t)
    /\ status' = [status EXCEPT ![r][t] = "done"]
    /\ UNCHANGED <<call, declared, roots, runNo, job, committed, staging, started,
                   executions, report, commits, deleted, instances,
                   failedRuns, succeeded>>

(***************************************************************************)
(* Between runs                                                            *)
(***************************************************************************)
\* the same roots are resolved again: the Task Nodes are created anew, the
\* Output Store is what the run before left
NewRun ==
    /\ Finished(1)
    /\ runNo < MaxRuns
    /\ runNo' = runNo + 1
    /\ status' = [r \in Resolvers |-> EmptyMap]
    /\ job' = [r \in Resolvers |-> EmptyMap]
    /\ report' = {}
    /\ started' = << >>
    /\ commits' = << >>
    /\ UNCHANGED <<call, declared, roots, committed, staging, executions, deleted,
                   instances, failedRuns, succeeded>>

\* a committed record is deleted from outside, between two runs: after the
\* run before has ended and before the resolver has looked at any Task
ExternalDelete(loc) ==
    /\ runNo > 1
    /\ Known(1) = {}
    /\ Cardinality(deleted) < MaxDeletes
    /\ loc \in DOMAIN committed
    /\ committed' = Drop(committed, loc)
    /\ deleted' = deleted \cup {loc}
    /\ UNCHANGED <<call, declared, roots, runNo, status, job, staging, started,
                   executions, report, commits, instances, failedRuns,
                   succeeded>>

Step(r, t) ==
    \/ Add(r, t)
    \/ PropagateFailure(r, t)
    \/ Start(r, t)
    \/ Compute(r, t)
    \/ Raise(r, t)
    \/ OpenTemp(r, t)
    \/ Dump(r, t)
    \/ Rename(r, t)
    \/ Interrupt(r, t)
    \/ Return(r, t)

\* every Task a step may be about
Universe == Tasks \cup UNION {requires(t) : t \in Tasks}

Next ==
    \/ \E t \in Universe : Step(1, t)
    \/ NewRun
    \/ \E loc \in DOMAIN committed : ExternalDelete(loc)

Spec == Init /\ [][Next]_vars

(***************************************************************************)
(* Two resolvers at once on one Output Store (specification, sections 4.3  *)
(* and 5): each has its own Task Nodes, both are given the same root       *)
(***************************************************************************)
InitConc ==
    /\ Init
    /\ Cardinality(roots) = 1

NextConc ==
    \E r \in Resolvers : \E t \in Universe :
        \/ Step(r, t)
        \/ Discard(r, t)
        \/ SkipCached(r, t)

SpecConc == InitConc /\ [][NextConc]_vars

(***************************************************************************)
(* Cycle detection (specification, section 4.3): the graph that the        *)
(* resolver builds must be acyclic.  The classes of this file declare no    *)
(* cycle; one can only come from what FindBulk declares.                    *)
(***************************************************************************)
\* what FindBulk may declare: nothing, itself, or a Task that requires it
Declarations ==
    {{}, {FindBulk(Mpid)},
     {GenerateSlabs(Mpid, Miller, DefaultSlabGeneratorSettings,
                    DefaultGetSlabSettings)}}

\* the Tasks reached from a set of Tasks along requires(), the set included
RECURSIVE Closure(_, _)
Closure(S, n) ==
    IF n = 0 THEN S
    ELSE Closure(S \cup UNION {requires(t) : t \in S}, n - 1)
Reach(S) == Closure(S, Cardinality(Universe))

\* the Task lies on a dependency cycle
OnCycle(t) == t \in Reach(requires(t))

CycleRaised == \E f \in report : f.cause = "CyclicDependencyError"

\* the graph of resolver r is built as far as it goes
GraphBuilt(r) ==
    /\ roots \subseteq Known(r)
    /\ \A p \in Known(r) : status[r][p] = "pending" => requires(p) \subseteq Known(r)

\* the graph is built and has a cycle: CyclicDependencyError, fatal; what
\* has not begun never will
DetectCycle(r) ==
    /\ GraphBuilt(r)
    /\ ~CycleRaised
    /\ \E t \in Known(r) : OnCycle(t)
    /\ report' = report \cup
                   {[task |-> t, cause |-> "CyclicDependencyError"] :
                      t \in {c \in Known(r) : OnCycle(c)}}
    /\ status' = [status EXCEPT ![r] =
                    [t \in Known(r) |->
                       IF status[r][t] = "pending" THEN "failed" ELSE status[r][t]]]
    /\ failedRuns' = failedRuns \cup {runNo}
    /\ UNCHANGED <<call, declared, roots, runNo, job, committed, staging, started,
                   executions, commits, deleted, instances, succeeded>>

InitCycle ==
    /\ roots \in RootSets
    /\ declared \in Declarations
    /\ runNo = 1
    /\ status = [r \in Resolvers |-> EmptyMap]
    /\ job = [r \in Resolvers |-> EmptyMap]
    /\ committed = EmptyMap
    /\ staging = EmptyMap
    /\ started = << >>
    /\ executions = EmptyMap
    /\ report = {}
    /\ commits = << >>
    /\ deleted = {}
    /\ failedRuns = {}
    /\ succeeded = {}
    /\ instances = EmptyMap
    /\ call = NoCall

NextCycle ==
    \/ \E t \in Universe : Step(1, t)
    \/ DetectCycle(1)
    \/ NewRun

\* the resolver keeps taking steps while it has one to take
SpecCycle == InitCycle /\ [][NextCycle]_vars /\ WF_vars(NextCycle)

(***************************************************************************)
(* Constructing Task instances: the same class may be given its parameters *)
(* as a list or a tuple, and a mapping with its items in any order         *)
(***************************************************************************)
Reverse(seq) == [i \in 1..Len(seq) |-> seq[Len(seq) + 1 - i]]
OtherSlabGeneratorSettings == <<<<"min_slab_size", 8>>, <<"min_vacuum_size", 20>>>>
RawMillers == {AsTuple(m) : m \in MillerElems} \cup {AsList(m) : m \in MillerElems}
RawSlabGeneratorSettings ==
    {DefaultSlabGeneratorSettings, Reverse(DefaultSlabGeneratorSettings),
     OtherSlabGeneratorSettings, Reverse(OtherSlabGeneratorSettings)}
RawGetSlabSettings == {DefaultGetSlabSettings, Reverse(DefaultGetSlabSettings)}
Slots == {"first", "second"}
Processes == {1, 2}

\* the arguments a constructor call is given
Arguments(type, name, miller_indices, slab_generator_settings, get_slab_settings, min_xy) ==
    [type |-> type, name |-> name, miller_indices |-> miller_indices,
     slab_generator_settings |-> slab_generator_settings,
     get_slab_settings |-> get_slab_settings, min_xy |-> min_xy]

InitId ==
    /\ roots = {}
    /\ runNo = 1
    /\ status = [r \in Resolvers |-> EmptyMap]
    /\ job = [r \in Resolvers |-> EmptyMap]
    /\ committed = EmptyMap
    /\ staging = EmptyMap
    /\ started = << >>
    /\ executions = EmptyMap
    /\ report = {}
    /\ commits = << >>
    /\ deleted = {}
    /\ failedRuns = {}
    /\ succeeded = {}
    /\ instances = EmptyMap
    /\ call = NoCall
    /\ declared = {}

\* the first instance is constructed in process 1, the second in either
Construct(slot, proc, task, args) ==
    /\ slot \notin DOMAIN instances
    /\ IF slot = "first" THEN proc = 1 ELSE "first" \in DOMAIN instances
    /\ instances' = Put(instances, slot,
                        [task |-> task, args |-> args, proc |-> proc,
                         serial |-> Cardinality(DOMAIN instances) + 1])
    /\ UNCHANGED <<call, declared, roots, runNo, status, job, committed, staging, started,
                   executions, report, commits, deleted, failedRuns,
                   succeeded>>

ConstructGenerateGas(slot, proc) ==
    \E gas_name \in Names :
        Construct(slot, proc, GenerateGas(gas_name),
                  Arguments("GenerateGas", gas_name, NoMiller, NoSettings,
                            NoSettings, 0))

ConstructGenerateBulk(slot, proc) ==
    \E mpid \in Names :
        Construct(slot, proc, GenerateBulk(mpid),
                  Arguments("GenerateBulk", mpid, NoMiller, NoSettings,
                            NoSettings, 0))

ConstructFindBulk(slot, proc) ==
    \E mpid \in Names :
        Construct(slot, proc, FindBulk(mpid),
                  Arguments("FindBulk", mpid, NoMiller, NoSettings, NoSettings, 0))

ConstructGenerateSlabs(slot, proc) ==
    \E mpid \in Names, miller \in RawMillers, sgs \in RawSlabGeneratorSettings,
       gss \in RawGetSlabSettings :
        Construct(slot, proc, GenerateSlabs(mpid, miller, sgs, gss),
                  Arguments("GenerateSlabs", mpid, miller, sgs, gss, 0))

ConstructGenerateAdsorptionSites(slot, proc) ==
    \E mpid \in Names, miller \in RawMillers, sgs \in RawSlabGeneratorSettings,
       gss \in RawGetSlabSettings, min_xy \in MinXYs :
        Construct(slot, proc,
                  GenerateAdsorptionSites(mpid, miller, sgs, gss, min_xy),
                  Arguments("GenerateAdsorptionSites", mpid, miller, sgs, gss,
                            min_xy))

NextId ==
    \E slot \in Slots, proc \in Processes :
        \/ ConstructGenerateGas(slot, proc)
        \/ ConstructGenerateBulk(slot, proc)
        \/ ConstructFindBulk(slot, proc)
        \/ ConstructGenerateSlabs(slot, proc)
        \/ ConstructGenerateAdsorptionSites(slot, proc)

SpecId == InitId /\ [][NextId]_vars

(***************************************************************************)
(* The document functions called on their own: slab structures in, slab    *)
(* documents out, then the site documents of those slabs                    *)
(***************************************************************************)
MaxStructs == 3      \* slab structures in one list

FnStructs == {InvertibleStruct, SymmetricStruct, BareStruct, FlippableStruct}
StructLists == UNION {[1..n -> FnStructs] : n \in 0..MaxStructs}

InitFn ==
    /\ roots = {}
    /\ runNo = 1
    /\ status = [r \in Resolvers |-> EmptyMap]
    /\ job = [r \in Resolvers |-> EmptyMap]
    /\ committed = EmptyMap
    /\ staging = EmptyMap
    /\ started = << >>
    /\ executions = EmptyMap
    /\ report = {}
    /\ commits = << >>
    /\ deleted = {}
    /\ failedRuns = {}
    /\ succeeded = {}
    /\ instances = EmptyMap
    /\ declared = {}
    /\ \E structs \in StructLists : call = [NoCall EXCEPT !.step = "structs", !.structs = structs]

\* slab_docs = _make_slab_docs_from_structs(slab_structs)
MakeSlabDocs ==
    /\ call.step = "structs"
    /\ call' = [call EXCEPT
                  !.step = "slab_docs",
                  !.slab_docs = _make_slab_docs_from_structs(call.structs, Mpid)]
    /\ UNCHANGED <<declared, roots, runNo, status, job, committed, staging,
                   started, executions, report, commits, deleted, instances,
                   failedRuns, succeeded>>

\* the loop of GenerateAdsorptionSites.run over those slab documents
MakeSiteDocs(min_xy) ==
    /\ call.step = "slab_docs"
    /\ call' = [call EXCEPT
                  !.step = "site_docs",
                  !.min_xy = min_xy,
                  !.site_docs =
                      GenerateAdsorptionSites_docs(
                          GenerateAdsorptionSites(Mpid, Miller,
                              DefaultSlabGeneratorSettings,
                              DefaultGetSlabSettings, min_xy),
                          call.slab_docs)]
    /\ UNCHANGED <<declared, roots, runNo, status, job, committed, staging,
                   started, executions, report, commits, deleted, instances,
                   failedRuns, succeeded>>

NextFn ==
    \/ MakeSlabDocs
    \/ \E min_xy \in MinXYs : MakeSiteDocs(min_xy)

SpecFn == InitFn /\ [][NextFn]_vars

(***************************************************************************)
(* Properties                                                              *)
(***************************************************************************)
\* the chain of the task library: sites <- slabs <- bulk
ChainA == FindBulk(Mpid)
ChainB ==
    GenerateSlabs(Mpid, Miller, DefaultSlabGeneratorSettings, DefaultGetSlabSettings)
ChainC(min_xy) ==
    GenerateAdsorptionSites(Mpid, Miller, DefaultSlabGeneratorSettings,
                            DefaultGetSlabSettings, min_xy)

\* the Task whose record a Task's run() consumes, by class
Upstream(t) ==
    CASE t.type = "GenerateAdsorptionSites" ->
           {[t EXCEPT !.type = "GenerateSlabs", !.min_xy = 0]}
      [] t.type = "GenerateSlabs" -> {FindBulk(t.name)}
      [] t.type = "FindBulk" -> declared
      [] OTHER -> {}
DependsOn(c, b) == b \in Upstream(c) \/ \E m \in Upstream(c) : b \in Upstream(m)

StartedTasks == [i \in DOMAIN started |-> started[i].task]
StartsOf(t) == Cardinality({i \in DOMAIN started : started[i].task = t})
IsPrefix(s, t) == Len(s) <= Len(t) /\ \A i \in DOMAIN s : s[i] = t[i]
\* the Tasks whose execute() raised in this run
ExecFailed == {f.task : f \in {g \in report : g.cause = "TaskExecutionError"}}

\* C1: a second resolve-and-run of the same roots, after a first run without
\* failure and with no external deletion in between, begins no execute() and
\* publishes nothing; every root has been executed exactly once in total and
\* its record exists throughout the second run.
C1_Idempotence ==
    (runNo = 2 /\ deleted = {} /\ 1 \notin failedRuns) =>
        /\ \A t \in roots : Executions(t) = 1 /\ exists(t)
        /\ started = << >>
        /\ commits = << >>
        /\ job[1] = EmptyMap

C1_Witness ==
    /\ runNo = 2 /\ deleted = {} /\ 1 \notin failedRuns
    /\ Finished(1)
    /\ GenerateGas("CO") \in roots
    /\ StatusOf(1, GenerateGas("CO")) = "done"

\* C2: whenever an execute() has begun, every declared dependency of its Task
\* is done; GenerateAdsorptionSites never begins before GenerateSlabs is done,
\* nor GenerateSlabs before FindBulk is done; and resolving the root
\* GenerateAdsorptionSites alone with nothing cached begins FindBulk, then
\* GenerateSlabs, then GenerateAdsorptionSites, in that order.
C2_DependencyOrdering ==
    /\ \A i \in DOMAIN started :
         /\ \A d \in requires(started[i].task) : StatusOf(started[i].by, d) = "done"
         /\ \A d \in Upstream(started[i].task) : StatusOf(started[i].by, d) = "done"
    /\ \A x \in MinXYs :
         (runNo = 1 /\ roots = {ChainC(x)}) =>
             /\ IsPrefix(StartedTasks, <<ChainA, ChainB, ChainC(x)>>)
             /\ StatusOf(1, ChainC(x)) = "done" =>
                  StartedTasks = <<ChainA, ChainB, ChainC(x)>>

C2_Witness ==
    /\ runNo = 1
    /\ roots = {ChainC(4)}
    /\ StatusOf(1, ChainC(4)) = "done"
    /\ StartedTasks = <<ChainA, ChainB, ChainC(4)>>

\* C3: no record at a committed location is partial; while a write has not
\* reached its publish step, and after it was interrupted before it, the
\* record does not exist (only the staging artifact is there); once the write
\* has returned, the record exists and holds exactly the payload written.
C3_AtomicVisibility ==
    /\ \A loc \in DOMAIN committed : committed[loc].complete
    /\ \A t \in DOMAIN job[1] : Statement(1, t) = "save" => ~exists(t)
    /\ \A t \in Known(1) :
         (status[1][t] = "failed" /\ temporary_path(1, t) \in DOMAIN staging)
             => ~exists(t)
    /\ \A t \in DOMAIN job[1] :
         Statement(1, t) = "return" =>
             /\ exists(t)
             /\ committed[output(t)] = [data |-> job[1][t].doc, complete |-> TRUE]

C3_Witness ==
    /\ \E t \in Known(1) :
         /\ status[1][t] = "failed"
         /\ temporary_path(1, t) \in DOMAIN staging
         /\ ~staging[temporary_path(1, t)].complete
         /\ ~exists(t)
    /\ \E t \in DOMAIN job[1] :
         /\ Statement(1, t) = "return"
         /\ committed[output(t)].data = job[1][t].doc

\* C4 as stated: a record exists only for a Task whose execute() has returned,
\* never for a Task that is pending, still running or failed.
C4_Original ==
    \A t \in Universe :
        exists(t) =>
            /\ t \in succeeded
            /\ StatusOf(1, t) \notin {"pending", "running", "failed"}

\* C4, amended: a record exists only for a Task that is neither pending nor
\* failed in this run and whose execute() has returned, or that is still
\* running with every statement of its run(), the write included, finished:
\* the record is visible from the publish step on, before the Task is
\* marked done.
C4_OutputRecordInvariant ==
    \A t \in Universe :
        exists(t) =>
            /\ StatusOf(1, t) \notin {"pending", "failed"}
            /\ IF StatusOf(1, t) = "running"
               THEN Statement(1, t) = "return"
               ELSE t \in succeeded

C4_Witness ==
    \E t \in DOMAIN job[1] :
        /\ exists(t)
        /\ status[1][t] = "running"
        /\ Statement(1, t) = "return"
        /\ t \notin succeeded

Needs(c, b) ==
    /\ ~exists(c)
    /\ \/ b \in Upstream(c)
       \/ \E m \in Upstream(c) : ~exists(m) /\ b \in Upstream(m)

C6_FailureSemantics ==
    \A t \in ExecFailed :
        /\ StatusOf(1, t) = "failed"
        /\ ~exists(t)
        /\ t \notin DOMAIN job[1]
        /\ StartsOf(t) = 1

C6_Witness ==
    /\ Finished(1)
    /\ GenerateBulk(Mpid) \in ExecFailed
    /\ ~exists(GenerateBulk(Mpid))

\* C7: within one resolution no Task is executed twice, and an execute()
\* begins only while the Task's record is absent; the GenerateAdsorptionSites
\* Tasks that differ only in min_xy require one and the same GenerateSlabs
\* Task, which is executed at most once when both are roots and whose record
\* is what both load.
C7_State ==
    /\ \A t \in Universe : StartsOf(t) <= 1
    /\ \A x \in MinXYs : requires(ChainC(x)) = {ChainB}
    /\ roots = {ChainC(x) : x \in MinXYs} =>
         /\ Cardinality({i \in DOMAIN started :
                           started[i].task.type = "GenerateSlabs"}) <= 1
         /\ \A t \in roots \cap DOMAIN job[1] :
              job[1][t].ip > 1 =>
                  /\ exists(ChainB)
                  /\ job[1][t].input = committed[output(ChainB)].data.docs
C7_Action ==
    \A t \in DOMAIN executions' :
        executions'[t] > Executions(t) => ~exists(t)
C7_NoDoubleExecution == []C7_State /\ [][C7_Action]_vars

C7_Witness ==
    /\ roots = {ChainC(x) : x \in MinXYs}
    /\ \A x \in MinXYs : StatusOf(1, ChainC(x)) = "done"
    /\ StartsOf(ChainB) = 1
    /\ runNo = 1

\* C8: with two resolvers on one root, each location is published at most
\* once and a committed record never changes; a worker whose write has
\* returned has left no staging artifact and finds a published record, its
\* own or the winner's; and what a dependent loads is the committed record.
C8_State ==
    /\ \A i, j \in DOMAIN commits : i # j => commits[i].loc # commits[j].loc
    /\ \A r \in Resolvers : \A t \in DOMAIN job[r] :
         /\ Statement(r, t) = "return" =>
              /\ exists(t)
              /\ committed[output(t)].complete
              /\ temporary_path(r, t) \notin DOMAIN staging
              /\ \E i \in DOMAIN commits : commits[i].loc = output(t)
              /\ (\E i \in DOMAIN commits :
                     commits[i].loc = output(t) /\ commits[i].by = r)
                   => committed[output(t)].data = job[r][t].doc
         /\ (run(t)[1] = "load" /\ job[r][t].ip > 1) =>
              job[r][t].input = committed[input(t)].data.docs
C8_Action ==
    \A loc \in DOMAIN committed :
        loc \in DOMAIN committed' /\ committed'[loc] = committed[loc]
C8_FirstCommitterWins == []C8_State /\ [][C8_Action]_vars

C8_Witness ==
    \E t \in DOMAIN job[1] \cap DOMAIN job[2] :
        /\ Statement(1, t) = "return"
        /\ Statement(2, t) = "return"
        /\ job[1][t].doc # job[2][t].doc
        /\ Cardinality({i \in DOMAIN commits : commits[i].loc = output(t)}) = 1

\* two calls give the same parameter values: the same strings and numbers,
\* the same sequence elements, the same items in the mappings
Items(mapping) == {mapping[i] : i \in DOMAIN mapping}
SameParameters(a, b) ==
    /\ a.type = b.type
    /\ a.name = b.name
    /\ a.miller_indices.elems = b.miller_indices.elems
    /\ Items(a.slab_generator_settings) = Items(b.slab_generator_settings)
    /\ Items(a.get_slab_settings) = Items(b.get_slab_settings)
    /\ a.min_xy = b.min_xy

\* C9: two instances of one class constructed with equal parameter values,
\* however written, in whichever order and process, are the same Task with
\* the same task_id and the same output location.
C9_Determinism ==
    \A a, b \in DOMAIN instances :
        SameParameters(instances[a].args, instances[b].args) =>
            /\ instances[a].task = instances[b].task
            /\ task_id(instances[a].task) = task_id(instances[b].task)
            /\ output(instances[a].task) = output(instances[b].task)

C9_Witness ==
    /\ DOMAIN instances = Slots
    /\ instances["first"].task.type = "GenerateSlabs"
    /\ SameParameters(instances["first"].args, instances["second"].args)
    /\ instances["first"].args.miller_indices # instances["second"].args.miller_indices
    /\ instances["first"].args.slab_generator_settings
         # instances["second"].args.slab_generator_settings
    /\ instances["first"].proc # instances["second"].proc
    /\ output(instances["first"].task) = output(instances["second"].task)

\* C10: two instances with the same output location have the same class and
\* equal parameter values.
C10_CollisionFreedom ==
    \A a, b \in DOMAIN instances :
        output(instances[a].task) = output(instances[b].task) =>
            SameParameters(instances[a].args, instances[b].args)

C10_Witness ==
    /\ DOMAIN instances = Slots
    /\ instances["first"].task = GenerateGas("CO")
    /\ instances["second"].task = GenerateBulk("CO")
    /\ output(instances["first"].task) # output(instances["second"].task)

\* C11: a Task that lies on a dependency cycle is never executed and never
\* has a record; a resolution whose graph holds a cycle does not end without
\* CyclicDependencyError naming the Tasks on it, the error is raised for no
\* other Task, and once the graph of a resolution holds a cycle the error is
\* eventually raised.
C11_State ==
    /\ \A t \in Universe :
         (\E c \in Upstream(t) : t \in Upstream(c) \/ c = t
            \/ \E m \in Upstream(c) : t \in Upstream(m)) =>
             /\ Executions(t) = 0
             /\ ~exists(t)
    /\ \A t \in Known(1) :
         (OnCycle(t) /\ Finished(1)) =>
             [task |-> t, cause |-> "CyclicDependencyError"] \in report
    /\ \A f \in report :
         f.cause = "CyclicDependencyError" =>
             OnCycle(f.task) /\ StartsOf(f.task) = 0
C11_Cyclic == \E t \in Known(1) : OnCycle(t)
C11_CycleRejection == []C11_State /\ (C11_Cyclic ~> CycleRaised)

C11_Witness ==
    /\ roots = {ChainC(4), GenerateGas("CO")}
    /\ declared = {FindBulk(Mpid)}
    /\ CycleRaised
    /\ Finished(1)
    /\ status[1][GenerateGas("CO")] = "done"
    /\ StartsOf(ChainA) = 0

\* the structures of the list that are invertible, up to position n
InvertibleUpTo(structs, n) ==
    Cardinality({k \in 1..n : is_structure_invertible(structs[k]) = TRUE})
\* where the documents of structure i begin in the output
FirstDocOf(structs, i) == i + InvertibleUpTo(structs, i - 1)

\* C12: slab-document generation emits, for every structure of its input,
\* two documents when the structure is invertible, with the structure's
\* shift, the first with top = TRUE and the second with top = FALSE and the
\* atoms flipped, and one document with top = TRUE when it is not; the
\* output holds as many documents as there are structures plus invertible
\* structures.
C12_SlabFanOut ==
    call.step \in {"slab_docs", "site_docs"} =>
        LET structs == call.structs
            docs == call.slab_docs
        IN  /\ Len(docs) = Len(structs) + InvertibleUpTo(structs, Len(structs))
            /\ \A i \in DOMAIN structs :
                 LET k == FirstDocOf(structs, i)
                     own == {j \in DOMAIN docs :
                               j >= k /\ j < FirstDocOf(structs, i + 1)}
                 IN  /\ \A j \in own : /\ docs[j].shift = structs[i].shift
                                        /\ docs[j].atoms.struct = structs[i].id
                     /\ docs[k].top = TRUE /\ ~docs[k].atoms.flipped
                     /\ IF structs[i].invertible
                        THEN /\ own = {k, k + 1}
                             /\ docs[k + 1].top = FALSE
                             /\ docs[k + 1].atoms.flipped
                        ELSE own = {k}

C12_Witness ==
    /\ call.step = "slab_docs"
    /\ call.structs = <<InvertibleStruct, SymmetricStruct, FlippableStruct>>
    /\ Len(call.slab_docs) = 5

\* the sites found on the tiled slab of document i, for the min_xy of the call
SitesOf(slab_docs, min_xy, i) ==
    find_adsorption_sites(
        tile_atoms(make_atoms_from_doc(slab_docs[i]), min_xy, min_xy)[1])
RECURSIVE SitesUpTo(_, _, _)
SitesUpTo(slab_docs, min_xy, n) ==
    IF n = 0 THEN 0
    ELSE SitesUpTo(slab_docs, min_xy, n - 1) + Len(SitesOf(slab_docs, min_xy, n))

\* C13: adsorption-site generation emits, for every slab document and every
\* site found on its tiled slab, one document, in that order: its atoms are
\* the tiled slab with one uranium atom tagged 1 at the site, its
\* adsorption_site is the site and its slab_repeat the repeat of that slab;
\* the output holds no other document.
C13_SiteFanOut ==
    call.step = "site_docs" =>
        LET slabs == call.slab_docs
            docs == call.site_docs
        IN  /\ Len(docs) = SitesUpTo(slabs, call.min_xy, Len(slabs))
            /\ \A i \in DOMAIN slabs :
                 LET tiled == tile_atoms(make_atoms_from_doc(slabs[i]),
                                         call.min_xy, call.min_xy)
                     sites == SitesOf(slabs, call.min_xy, i)
                 IN  \A j \in DOMAIN sites :
                         LET doc == docs[SitesUpTo(slabs, call.min_xy, i - 1) + j]
                         IN  /\ doc.adsorption_site = sites[j]
                             /\ doc.slab_repeat = tiled[2]
                             /\ Len(doc.atoms.adsorbate) = 1
                             /\ doc.atoms.adsorbate[1] =
                                  [symbol |-> "U", position |-> sites[j], tag |-> 1]
                             /\ [doc.atoms EXCEPT !.adsorbate = << >>] = tiled[1]

C13_Witness ==
    /\ call.step = "site_docs"
    /\ call.structs = <<InvertibleStruct, SymmetricStruct>>
    /\ call.min_xy = 5
    /\ Len(call.slab_docs) = 3
    /\ Len(call.site_docs) = 5
    /\ call.site_docs[1].slab_repeat = <<3, 3>>

\* the structures that the top = TRUE documents were made from, in order
RECURSIVE TopStructs(_)
TopStructs(docs) ==
    IF docs = << >> THEN << >>
    ELSE (IF Head(docs).top THEN <<Head(docs).atoms.struct>> ELSE << >>)
           \o TopStructs(Tail(docs))

\* C18: the slab documents keep the order of the input structures; a
\* document with top = FALSE comes directly after a document with top = TRUE
\* that has its shift and was made from its structure; the first document of
\* a non-empty output has top = TRUE.
C18_SlabDocOrdering ==
    call.step \in {"slab_docs", "site_docs"} =>
        LET docs == call.slab_docs
        IN  /\ TopStructs(docs) = [i \in DOMAIN call.structs |-> call.structs[i].id]
            /\ docs # << >> => docs[1].top = TRUE
            /\ \A k \in DOMAIN docs :
                 docs[k].top = FALSE =>
                     /\ k > 1
                     /\ docs[k - 1].top = TRUE
                     /\ docs[k - 1].shift = docs[k].shift
                     /\ docs[k - 1].atoms.struct = docs[k].atoms.struct

C18_Witness ==
    /\ call.step = "slab_docs"
    /\ call.structs = <<SymmetricStruct, FlippableStruct, InvertibleStruct>>
    /\ [k \in DOMAIN call.slab_docs |-> call.slab_docs[k].top]
         = <<TRUE, TRUE, FALSE, TRUE, FALSE>>

\* when a run has ended, a Task of its graph has a record exactly if it is
\* done, every failed Task is named in the failure report, and every record
\* is of a Task whose execute() has returned at some time
C14_State ==
    Finished(1) =>
        /\ \A t \in Known(1) :
             /\ exists(t) <=> status[1][t] = "done"
             /\ status[1][t] = "failed" => \E f \in report : f.task = t
        /\ \A t \in Universe : exists(t) => t \in succeeded
        /\ \A t \in succeeded : output(t) \notin deleted => exists(t)

\* C14 as stated: C14_State, and in the run after a run with failures an
\* execute() begins only for a Task that has no record and never for a Task
\* that has already succeeded.
C14_OriginalAction ==
    \A t \in Universe :
        (Executions(t)' > Executions(t) /\ runNo > 1 /\ (runNo - 1) \in failedRuns) =>
            /\ output(t) \notin DOMAIN committed
            /\ t \notin succeeded
C14_Original == []C14_State /\ [][C14_OriginalAction]_vars

\* C14, amended: C14_State, and in the run after a run with failures an
\* execute() begins only for a Task that has no record, and never for a Task
\* that has already succeeded unless its record has been deleted from
\* outside since.
C14_Action ==
    \A t \in Universe :
        (Executions(t)' > Executions(t) /\ runNo > 1 /\ (runNo - 1) \in failedRuns) =>
            /\ output(t) \notin DOMAIN committed
            /\ t \in succeeded => output(t) \in deleted
C14_ResumablePartialFailure == []C14_State /\ [][C14_Action]_vars

C14_Witness ==
    /\ runNo = 2 /\ deleted = {} /\ 1 \in failedRuns
    /\ Finished(1)
    /\ roots = {ChainC(4)}
    /\ Executions(ChainA) = 1
    /\ Executions(ChainB) = 2
    /\ status[1][ChainC(4)] = "done"
    /\ report = {}

\* C15: a Task Node becomes running only from pending, with no record for
\* its Task and with every Task whose record it consumes done; it becomes
\* done from running only with its record committed; it becomes failed from
\* running with its error reported; within a run a done or failed node
\* keeps its status; and a done node always has its record.
C15_State ==
    \A t \in Known(1) : status[1][t] = "done" => exists(t)
C15_Action ==
    \A t \in Known(1) \cap Known(1)' :
        LET old == status[1][t]
            new == status'[1][t]
        IN  /\ (new = "running" /\ old # "running") =>
                 /\ old = "pending"
                 /\ output(t) \notin DOMAIN committed
                 /\ \A d \in Upstream(t) : StatusOf(1, d) = "done"
            /\ (old = "running" /\ new = "done") =>
                 /\ output(t) \in DOMAIN committed
                 /\ committed[output(t)].complete
                 /\ committed' = committed
            /\ (old = "running" /\ new = "failed") =>
                 [task |-> t, cause |-> "TaskExecutionError"] \in report'
            /\ old = "running" => new \in {"running", "done", "failed"}
            /\ old \in Terminal => new = old
C15_StatusLifecycle == []C15_State /\ [][C15_Action]_vars

C15_Witness ==
    /\ Finished(1)
    /\ roots = {ChainC(4), GenerateGas("mp-2")}
    /\ StatusOf(1, ChainC(4)) = "done"
    /\ \E i \in DOMAIN started : started[i].task = ChainC(4)
    /\ StatusOf(1, GenerateGas("mp-2")) = "failed"

C17_Acyclic == \A t \in Reach(roots) : ~OnCycle(t)
\* every Task reached from the roots is done or failed in the graph, or is
\* not in the graph because a record made it unnecessary
C17_Settled ==
    /\ Finished(1)
    /\ \A t \in Reach(roots) : StatusOf(1, t) \in Terminal \/ exists(t)
C17_AllDone ==
    report = {} =>
        /\ \A t \in Known(1) : status[1][t] = "done"
        /\ \A t \in roots : exists(t)

EmptyRecord(t) == exists(t) /\ committed[output(t)].data = DocList(<< >>)

\* C19: a GenerateAdsorptionSites whose run() has computed no document,
\* because there is no slab document or no site on any slab, has written a
\* record holding the empty sequence by the time run() returns; a Task with
\* such a record is done (or about to return), and done without having been
\* executed when the record was there before the run; and while the record
\* is there no execute() of the Task begins.
C19_State ==
    \A x \in MinXYs :
        LET t == ChainC(x)
        IN  /\ (t \in DOMAIN job[1] /\ Statement(1, t) = "return"
                   /\ job[1][t].doc.docs = << >>) =>
                    /\ EmptyRecord(t)
                    /\ job[1][t].input = << >>
                         \/ \A i \in DOMAIN job[1][t].input :
                              SitesOf(job[1][t].input, x, i) = << >>
            /\ (EmptyRecord(t) /\ t \in Known(1)) =>
                    /\ status[1][t] \in {"running", "done"}
                    /\ status[1][t] = "running" => Statement(1, t) = "return"
                    /\ StartsOf(t) = 0 => status[1][t] = "done"
C19_Action ==
    \A x \in MinXYs :
        EmptyRecord(ChainC(x)) => Executions(ChainC(x))' = Executions(ChainC(x))
C19_EmptyFanOutCommits == []C19_State /\ [][C19_Action]_vars

C19_Witness ==
    /\ runNo = 2
    /\ deleted = {}
    /\ roots = {ChainC(4)}
    /\ StatusOf(1, ChainC(4)) = "done"
    /\ EmptyRecord(ChainC(4))
    /\ Len(committed[output(ChainB)].data.docs) = 1
    /\ Executions(ChainC(4)) = 1
    /\ started = << >>

\* C20: the Output Store changes only when a running Task, at the last
\* statement of its run(), publishes the record of its own location, which
\* was absent, or when a record is deleted from outside; every other record
\* is left as it was, so what a Task has loaded is still what its
\* dependency's record holds; and in one run no location is published twice
\* and every published location is that of a Task started in the run.
C20_State ==
    /\ \A i, j \in DOMAIN commits : commits[i].loc = commits[j].loc => i = j
    /\ \A i \in DOMAIN commits :
         \E k \in DOMAIN started : commits[i].loc = output(started[k].task)
    /\ \A t \in DOMAIN job[1] :
         (run(t)[1] = "load" /\ job[1][t].ip > 1) =>
             \A d \in Upstream(t) :
                 /\ exists(d)
                 /\ committed[output(d)].data.docs = job[1][t].input
C20_Action ==
    committed' # committed =>
        \/ \E loc \in DOMAIN committed :
             /\ committed' = Drop(committed, loc)
             /\ deleted' = deleted \cup {loc}
             /\ job[1] = EmptyMap
        \/ \E t \in DOMAIN job[1] :
             /\ Statement(1, t) = "save"
             /\ job[1][t].ip = Len(run(t))
             /\ output(t) \notin DOMAIN committed
             /\ committed' = Put(committed, output(t),
                                 [data |-> job[1][t].doc, complete |-> TRUE])
C20_FrameOfExecute == []C20_State /\ [][C20_Action]_vars

C20_Witness ==
    /\ ChainC(4) \in DOMAIN job[1]
    /\ Statement(1, ChainC(4)) = "return"
    /\ \E i \in DOMAIN commits : commits[i].loc = output(ChainC(4))
    /\ job[1][ChainC(4)].input # << >>
    /\ committed[output(ChainB)].data.docs = job[1][ChainC(4)].input

=============================================================================
